---- MODULE Spec2Model ----
(***************************************************************************)
(* Model of rsync-csv (src/src/main.rs): a watch-and-forward agent.  One   *)
(* thread consumes file-system notifications; for a data-modification      *)
(* event on a *.csv path it reads the file's first line, looks it up in    *)
(* the template map, runs rsync to <dest_dir>/<table>, deletes the local   *)
(* file on success and appends a record to upload.log beside the file.     *)
(*                                                                         *)
(* Strings whose bytes matter (header lines, file contents) are sequences  *)
(* of one-character strings.  The environment (producers of CSV files,     *)
(* other actors on the watched tree) acts between any two file-system      *)
(* operations of the agent.                                                *)
(***************************************************************************)
EXTENDS Integers, Sequences, FiniteSets, TLC

(* ------------------------------ bounds -------------------------------- *)
\* number of notifications the environment emits in one behaviour
MaxEvents == 2
\* largest number of trailing commas a producer puts after a header line
MaxCommas == 2
\* largest number of template files in the template directory
MaxTemplates == 1

(* --------------------------- string helpers --------------------------- *)
NL == "\n"
CR == "\r"
SP == " "
COMMA == ","

IsWhitespace(c) == c \in {NL, CR, SP}

RECURSIVE TrimStart(_)
TrimStart(s) ==
  IF s # <<>> /\ IsWhitespace(Head(s)) THEN TrimStart(Tail(s)) ELSE s

RECURSIVE TrimEnd(_)
TrimEnd(s) ==
  IF s # <<>> /\ IsWhitespace(s[Len(s)]) THEN TrimEnd(SubSeq(s, 1, Len(s) - 1)) ELSE s

\* str::trim (main.rs:174)
Trim(s) == TrimEnd(TrimStart(s))

\* str::trim_end_matches(",") (main.rs:71): removes EVERY trailing comma
RECURSIVE TrimEndMatchesComma(_)
TrimEndMatchesComma(s) ==
  IF s # <<>> /\ s[Len(s)] = COMMA
  THEN TrimEndMatchesComma(SubSeq(s, 1, Len(s) - 1))
  ELSE s

\* index of the first newline of a content, 0 when there is none
RECURSIVE NewlineAt(_, _)
NewlineAt(c, i) ==
  IF i > Len(c) THEN 0 ELSE IF c[i] = NL THEN i ELSE NewlineAt(c, i + 1)

\* reader.lines().next().unwrap_or_else(|| Ok(String::new())) (main.rs:69):
\* the bytes before the first "\n", without a "\r" that ends them; the empty
\* string for an empty file
FirstLine(c) ==
  LET n == NewlineAt(c, 1)
      raw == IF n = 0 THEN c ELSE SubSeq(c, 1, n - 1)
  IN IF n # 0 /\ raw # <<>> /\ raw[Len(raw)] = CR
     THEN SubSeq(raw, 1, Len(raw) - 1)
     ELSE raw

(* ------------------------- the template registry ---------------------- *)
HeaderAB == <<"a", COMMA, "b">>
HeaderB == <<"b">>

Commas(k) == [i \in 1..k |-> COMMA]

TemplateSuffix == "_template"

\* template files: a file stem (its tokens) and the file's content
TemplateFiles ==
  { [stem |-> <<"orders", TemplateSuffix>>, content |-> HeaderAB \o <<NL>>],
    [stem |-> <<"users", TemplateSuffix>>, content |-> HeaderAB \o <<COMMA>>],
    [stem |-> <<TemplateSuffix>>, content |-> <<SP>> \o HeaderB] }

\* directory listings: the files in the order read_dir yields them
RECURSIVE Listings(_)
Listings(n) ==
  IF n = 0 THEN {<<>>}
  ELSE LET shorter == Listings(n - 1)
       IN shorter \cup
          { Append(l, f) : l \in {x \in shorter : Len(x) = n - 1},
                           f \in TemplateFiles }

TemplateDirs ==
  { l \in Listings(MaxTemplates) :
      \A i, j \in 1..Len(l) : i # j => l[i] # l[j] }

\* v.strip_suffix("_template").unwrap().to_string() (main.rs:170)
TableNameOf(stem) ==
  LET rest == SubSeq(stem, 1, Len(stem) - 1)
  IN IF rest = <<>> THEN "" ELSE rest[1]

\* HashMap::insert: the later entry for a key replaces the earlier one
Insert(m, k, v) == [x \in DOMAIN m \cup {k} |-> IF x = k THEN v ELSE m[x]]

EmptyMap == [x \in {} |-> ""]

\* load_headers (main.rs:160-184)
RECURSIVE LoadHeaders(_)
LoadHeaders(listing) ==
  IF listing = <<>> THEN EmptyMap
  ELSE LET n == Len(listing)
           f == listing[n]
       IN Insert(LoadHeaders(SubSeq(listing, 1, n - 1)),
                 Trim(f.content), TableNameOf(f.stem))

(* ------------------------------ paths --------------------------------- *)
Dirs == {"d1", "d2"}

MkPath(d, s, e, u) == [dir |-> d, stem |-> s, ext |-> e, utf8 |-> u]

\* the CSV files producers write
CsvPaths == { MkPath(d, "x", "csv", TRUE) : d \in Dirs }

\* as if the extension were compared without regard to case
Extension_IgnoresCase(p) == IF p.ext = "CSV" THEN "csv" ELSE p.ext

\* Path::extension().and_then(|s| s.to_str()) (main.rs:33)
Extension(p) == p.ext

\* Path::file_name().unwrap().to_str() (main.rs:35, 67, 121): None when the
\* name is not UTF-8
FileName(p) == IF p.utf8 THEN <<p.stem, p.ext>> ELSE <<>>

\* Path::parent() (main.rs:45, 78, 132, 139)
Parent(p) == p.dir

\* Path::new(log_dir).join("upload.log") (main.rs:100)
LogPath(d) == MkPath(d, "upload", "log", TRUE)

\* PathBuf::from(dest_dir).join(table_name) (main.rs:115, 118)
DestDir == "dest"
Join(base, t) == <<base, t>>

(* --------------------------- file contents ---------------------------- *)
Absent == [exists |-> FALSE, content |-> <<>>]
Present(c) == [exists |-> TRUE, content |-> c]

\* first lines producers write: a header followed by 0..MaxCommas commas, and
\* another header
Lines == { HeaderAB \o Commas(k) : k \in 0..MaxCommas } \cup { HeaderB }

Contents == { l \o <<NL, "1">> : l \in Lines } \cup { <<>> }

\* what producers write in directory d: every content in the first directory,
\* one registered and one unregistered header in the other
ContentsIn(d) ==
  IF d = "d1" THEN Contents ELSE { HeaderAB \o <<NL, "1">>, HeaderB \o <<NL, "1">> }

(* ------------------------------ events -------------------------------- *)
Event(k, ps) == [kind |-> k, paths |-> ps]

ModifyData(p) == Event("ModifyData", <<p>>)

\* notifications that are not a data modification of a CSV file a producer
\* wrote, and the watcher's errors
NoiseEvents ==
  { Event("ModifyData", <<MkPath("d1", "x", "CSV", TRUE)>>),
    Event("ModifyData", <<MkPath("d1", "raw", "csv", FALSE)>>),
    Event("ModifyData", <<>>),
    Event("ModifyMetadata", <<MkPath("d1", "x", "csv", TRUE)>>),
    Event("Error", <<>>) }

(* --------------------------- audit messages --------------------------- *)
NoMatchReason == "No matching table headers found."

\* format!("Upload failed! File: {basename} Reason: {reason}")
FailedMsg(base, reason) == <<"Upload failed!", "File:", base, "Reason:", reason>>

\* format!("Upload succeeded! File: {basename}")
SucceededMsg(base) == <<"Upload succeeded!", "File:", base>>

\* how a call of log_upload_status ends: the line is written, the open fails
\* (main.rs:109), or the write fails (main.rs:106)
LogOutcomes == {"ok", "open_err", "write_err"}

NoLog == [exists |-> FALSE, lines |-> <<>>]

(* ------------------------------ state --------------------------------- *)
VARIABLES
  hashmap,   \* the template map, header line -> table name
  files,     \* CSV path -> [exists, content]
  logs,      \* directory -> its upload.log: [exists, lines]
  remote,    \* the files the remote host holds: [dest, file]
  queue,     \* rx: the notifications not yet consumed
  emitted,   \* notifications the environment has emitted
  pc,        \* the monitor thread's position
  run        \* what the current (or last) pipeline run has done

vars == <<hashmap, files, logs, remote, queue, emitted, pc, run>>

None == "none"
NoPath == MkPath("", "", "", TRUE)
NoResult == [tag |-> "None", val |-> ""]
Ok(v) == [tag |-> "Ok", val |-> v]
Err(e) == [tag |-> "Err", val |-> e]

\* the record of a pipeline run that has done nothing yet
NoEvent == Event(None, <<>>)

NoRun ==
  [ ev |-> NoEvent,        \* the notification taken from rx
    errs |-> 0,            \* watch errors reported so far (main.rs:55)
    runs |-> 0,            \* CSV file events detected so far (main.rs:34)
    path |-> NoPath,       \* event.paths[0]
    detected |-> FALSE,    \* info!("CSV file event detected") (main.rs:34)
    existed |-> None,      \* Path::exists() at main.rs:64: "yes" or "no"
    line |-> [read |-> FALSE, text |-> <<>>],  \* the first line read
    result |-> NoResult,   \* match_col_headers' return value
    xfers |-> 0,           \* rsync commands launched
    xfer |-> None,         \* outcome of the transfer
    dest |-> <<>>,         \* destination directory given to rsync
    del |-> None,          \* outcome of fs::remove_file: "ok" or "err"
    logsAtDel |-> 0,       \* log_upload_status calls made before remove_file
    goneAfterDel |-> None, \* the file was absent right after remove_file
    existsAtEnd |-> None,  \* the file existed when run_rsync returned
    atOpen |-> None,       \* the file existed when File::open was called
    io |-> None,           \* what File::open and the read of the line gave
    logCalls |-> 0,        \* calls of log_upload_status
    logOutcome |-> None,   \* outcome of the last such call
    logLens |-> [d \in Dirs |-> 0],   \* length of each upload.log at the start
    logsAtStart |-> [d \in Dirs |-> NoLog],  \* every upload.log at the start
    remoteAtStart |-> {} ]  \* the remote host's files at the start

YesNo(b) == IF b THEN "yes" ELSE "no"

Init ==
  /\ hashmap \in { LoadHeaders(l) : l \in TemplateDirs }
  /\ files = [p \in CsvPaths |-> Absent]
  /\ logs = [d \in Dirs |-> NoLog]
  /\ remote = {}
  /\ queue = <<>>
  /\ emitted = 0
  /\ pc = "recv"
  /\ run = NoRun

(* --------------------------- the audit logger ------------------------- *)
\* as if the line were written at the start of upload.log
LogUploadStatus_Prepends(lg, d, msg, o) ==
  IF o = "open_err" THEN lg
  ELSE [lg EXCEPT ![d] =
          [exists |-> TRUE,
           lines |-> IF o = "ok" THEN <<msg>> \o lg[d].lines ELSE lg[d].lines]]

\* as if upload.log were opened without append(true)
LogUploadStatus_Truncates(lg, d, msg, o) ==
  IF o = "open_err" THEN lg
  ELSE [lg EXCEPT ![d] =
          [exists |-> TRUE, lines |-> IF o = "ok" THEN <<msg>> ELSE <<>>]]

\* log_upload_status (main.rs:98-111): open upload.log in log_dir with
\* append(true).create(true), write one line.  The "<time> - " prefix of the
\* line is not modelled.  o is how the call ends.
LogUploadStatus(lg, d, msg, o) ==
  IF o = "open_err" THEN lg
  ELSE [lg EXCEPT ![d] =
          [exists |-> TRUE,
           lines |-> IF o = "ok" THEN Append(@.lines, msg) ELSE @.lines]]

\* a successful write is itself a data modification inside the watched tree
\* as if the audit record were written to a CSV file of the directory
LogEvents_OnCsvFile(d, o) ==
  IF o = "ok" THEN <<ModifyData(MkPath(d, "x", "csv", TRUE))>> ELSE <<>>

LogEvents(d, o) == IF o = "ok" THEN <<ModifyData(LogPath(d))>> ELSE <<>>

\* as if a failure to open or write upload.log ended the loop
AfterLog_PanicsOnError(o, next) == IF o = "ok" THEN next ELSE "panicked"

\* log_upload_status returns () however the open and the write end: their
\* errors are only reported with error! (main.rs:102-110), and the caller goes
\* on to next
AfterLog(o, next) == next

Logged(r, o) == [r EXCEPT !.logCalls = @ + 1, !.logOutcome = o]

\* the record of the run that notification res starts on path p
StartRun(res, p) ==
  [NoRun EXCEPT !.ev = res,
                !.errs = run.errs + IF res.kind = "Error" THEN 1 ELSE 0,
                !.runs = run.runs + IF p # NoPath THEN 1 ELSE 0,
                !.path = p,
                !.detected = (p # NoPath),
                !.logLens = [d \in Dirs |-> Len(logs[d].lines)],
                !.logsAtStart = logs,
                !.remoteAtStart = remote]

(* --------------------------- the environment -------------------------- *)
\* a producer writes (creates or overwrites) a CSV file
ExtWrite ==
  /\ emitted < MaxEvents
  /\ \E p \in CsvPaths :
       \E c \in ContentsIn(Parent(p)) :
         /\ files' = [files EXCEPT ![p] = Present(c)]
         /\ queue' = Append(queue, ModifyData(p))
  /\ emitted' = emitted + 1
  /\ UNCHANGED <<hashmap, logs, remote, pc, run>>

\* another actor removes a CSV file
ExtRemove ==
  /\ emitted < MaxEvents
  /\ \E p \in CsvPaths :
       /\ files[p].exists
       /\ files' = [files EXCEPT ![p] = Absent]
       /\ queue' = Append(queue, Event("Remove", <<p>>))
  /\ emitted' = emitted + 1
  /\ UNCHANGED <<hashmap, logs, remote, pc, run>>

\* any other notification arrives
ExtNoise ==
  /\ emitted < MaxEvents
  /\ \E e \in NoiseEvents : queue' = Append(queue, e)
  /\ emitted' = emitted + 1
  /\ UNCHANGED <<hashmap, files, logs, remote, pc, run>>

(* ------------------------------ the agent ----------------------------- *)
\* as if a notification could be taken while a run is in progress
CanReceive_Anytime == pc # "panicked"

\* `for res in rx` (main.rs:29): the next notification is taken only when the
\* body of the loop has returned
CanReceive == pc = "recv"

\* as if a watch error ended the loop
OnWatchError_Stops == "panicked"

\* Err(e) => error!("Watch error: {:?}", e) (main.rs:53): where the loop is
\* after a watch error
OnWatchError == "recv"

\* watch_for_file_changes, one iteration of `for res in rx` up to the call of
\* match_col_headers (main.rs:29-36, 52-56)
Recv ==
  /\ CanReceive
  /\ queue # <<>>
  /\ queue' = Tail(queue)
  /\ LET res == Head(queue)
     IN IF res.kind = "Error"
        THEN pc' = OnWatchError /\ run' = StartRun(res, NoPath)
        ELSE IF res.kind # "ModifyData"
        THEN pc' = "recv" /\ run' = StartRun(res, NoPath)     \* _ => ()
        ELSE IF res.paths = <<>>
        THEN pc' = "panicked" /\ run' = StartRun(res, NoPath)  \* event.paths[0]
        ELSE LET p == res.paths[1]
             IN IF Extension(p) # "csv"
                THEN pc' = "recv" /\ run' = StartRun(res, NoPath)
                ELSE IF FileName(p) = <<>>
                THEN pc' = "panicked" /\ run' = StartRun(res, p)
                ELSE pc' = "exists" /\ run' = StartRun(res, p)
  /\ UNCHANGED <<hashmap, files, logs, remote, emitted>>

\* as if a missing path were opened all the same
AfterExists_AlwaysOpens(e) == "open"

\* if Path::new(csv_path).exists() (main.rs:64): the file is opened only when
\* the path exists, otherwise match_col_headers returns (main.rs:85)
AfterExists(e) == IF e THEN "open" ELSE "recv"

\* match_col_headers, the existence check (main.rs:64, 85) and, for a missing
\* path, the caller's match on Ok("") (main.rs:38-42)
CheckExists ==
  /\ pc = "exists"
  /\ pc' = AfterExists(files[run.path].exists)
  /\ IF files[run.path].exists
     THEN run' = [run EXCEPT !.existed = "yes"]
     ELSE run' = [run EXCEPT !.existed = "no", !.result = Ok("")]
  /\ UNCHANGED <<hashmap, files, logs, remote, queue, emitted>>

\* what File::open and the read of the first line can give (main.rs:65, 69)
IoOutcomes(f) ==
  IF f.exists THEN {"ok", "PermissionDenied", "InvalidData"} ELSE {"NotFound"}

\* match_col_headers from File::open on (main.rs:65-85) and the caller's match
\* on its result (main.rs:37-50)
OpenAndRead ==
  /\ pc = "open"
  /\ LET p == run.path
         d == Parent(p)
         base == FileName(p)
     IN \E io \in IoOutcomes(files[p]), o \in LogOutcomes :
          LET r0 == [run EXCEPT !.atOpen = YesNo(files[p].exists), !.io = io]
          IN
          IF io # "ok"
          THEN \* `?` returns the error; the caller logs it
               LET msg == FailedMsg(base, io)
               IN /\ logs' = LogUploadStatus(logs, d, msg, o)
                  /\ queue' = queue \o LogEvents(d, o)
                  /\ run' = Logged([r0 EXCEPT !.result = Err(io)], o)
                  /\ pc' = AfterLog(o, "recv")
          ELSE LET csv_headers == FirstLine(files[p].content)
                   key == TrimEndMatchesComma(csv_headers)
                   r1 == [r0 EXCEPT !.line = [read |-> TRUE, text |-> csv_headers]]
               IN IF key \in DOMAIN hashmap
                  THEN LET table_name == hashmap[key]
                       IN /\ o = "ok"
                          /\ run' = [r1 EXCEPT !.result = Ok(table_name)]
                          /\ pc' = IF table_name # "" THEN "rsync" ELSE "recv"
                          /\ UNCHANGED <<logs, queue>>
                  ELSE LET msg == FailedMsg(base, NoMatchReason)
                       IN /\ logs' = LogUploadStatus(logs, d, msg, o)
                          /\ queue' = queue \o LogEvents(d, o)
                          /\ run' = Logged([r1 EXCEPT !.result = Ok("")], o)
                          /\ pc' = AfterLog(o, "recv")
  /\ UNCHANGED <<hashmap, files, remote, emitted>>

\* how the rsync command can end: exit status 0, a non-zero exit status, or
\* the command cannot be launched (main.rs:128-145).  rsync exits non-zero
\* when its source file is missing.
XferOutcomes(f) ==
  IF f.exists THEN {"success", "fail", "spawn_err"} ELSE {"fail", "spawn_err"}

RsyncStderr == "stderr"

AfterTransfer_DeleteAlways(x) == "delete"

\* as if a failed transfer were tried again
AfterTransfer_Retries(x) == IF x = "success" THEN "delete" ELSE "rsync"

\* where run_rsync goes after the command: delete_src_file only on
\* output.status.success() (main.rs:128-131, 136, 145)
AfterTransfer(x) == IF x = "success" THEN "delete" ELSE "recv"

\* run_rsync up to the end of the command, with its failure branches
\* (main.rs:113-129, 136-146)
RunRsync ==
  /\ pc = "rsync"
  /\ LET p == run.path
         d == Parent(p)
         base == FileName(p)
         dest == Join(DestDir, run.result.val)
         r1 == [run EXCEPT !.xfers = @ + 1, !.dest = dest]
     IN \E x \in XferOutcomes(files[p]), o \in LogOutcomes :
          CASE x = "success" ->
                 /\ o = "ok"
                 /\ remote' = remote \cup {[dest |-> dest, file |-> base]}
                 /\ run' = [r1 EXCEPT !.xfer = x]
                 /\ pc' = AfterTransfer(x)
                 /\ UNCHANGED <<logs, queue>>
            [] x = "fail" ->
                 LET msg == FailedMsg(base, RsyncStderr)
                 IN /\ logs' = LogUploadStatus(logs, d, msg, o)
                    /\ queue' = queue \o LogEvents(d, o)
                    /\ run' = Logged([r1 EXCEPT !.xfer = x,
                                                !.existsAtEnd = YesNo(files[p].exists)],
                                     o)
                    /\ pc' = AfterLog(o, AfterTransfer(x))
                    /\ UNCHANGED remote
            [] x = "spawn_err" ->
                 /\ o = "ok"
                 /\ run' = [r1 EXCEPT !.xfer = x,
                                      !.existsAtEnd = YesNo(files[p].exists)]
                 /\ pc' = AfterTransfer(x)
                 /\ UNCHANGED <<logs, queue, remote>>
  /\ UNCHANGED <<hashmap, files, emitted>>

\* what fs::remove_file can give (main.rs:91)
DeleteOutcomes(f) == IF f.exists THEN {"ok", "err"} ELSE {"err"}

RemoveFile_KeepsFile(fs, p, x) == fs

\* fs::remove_file (main.rs:91): the file is gone when it returns Ok
RemoveFile(fs, p, x) == IF x = "ok" THEN [fs EXCEPT ![p] = Absent] ELSE fs

AfterDelete_SkipAuditOnError(x) == IF x = "ok" THEN "logsucc" ELSE "recv"

\* delete_src_file returns (): whatever remove_file gave, run_rsync goes on
\* to the audit record (main.rs:131-132)
AfterDelete(x) == "logsucc"

\* delete_src_file, called on success before the audit record is written
\* (main.rs:131, 88-96)
DeleteSrcFile ==
  /\ pc = "delete"
  /\ LET p == run.path
     IN \E x \in DeleteOutcomes(files[p]) :
          /\ files' = RemoveFile(files, p, x)
          /\ queue' = IF x = "ok" THEN Append(queue, Event("Remove", <<p>>)) ELSE queue
          /\ run' = [run EXCEPT !.del = x,
                                !.logsAtDel = run.logCalls,
                                !.goneAfterDel = YesNo(~files'[p].exists)]
          /\ pc' = AfterDelete(x)
  /\ UNCHANGED <<hashmap, logs, remote, emitted>>

\* run_rsync, the audit record of a success (main.rs:132-135)
LogSuccess ==
  /\ pc = "logsucc"
  /\ LET p == run.path
         d == Parent(p)
         msg == SucceededMsg(FileName(p))
     IN \E o \in LogOutcomes :
          /\ logs' = LogUploadStatus(logs, d, msg, o)
          /\ queue' = queue \o LogEvents(d, o)
          /\ run' = Logged([run EXCEPT !.existsAtEnd = YesNo(files[p].exists)], o)
          /\ pc' = AfterLog(o, "recv")
  /\ UNCHANGED <<hashmap, files, remote, emitted>>

Next ==
  \/ ExtWrite
  \/ ExtRemove
  \/ ExtNoise
  \/ Recv
  \/ CheckExists
  \/ OpenAndRead
  \/ RunRsync
  \/ DeleteSrcFile
  \/ LogSuccess

Spec == Init /\ [][Next]_vars

\* the environment in which every write of upload.log succeeds
AuditOk == run'.logOutcome \in {None, "ok"}

NextAuditOk ==
  \/ ExtWrite
  \/ ExtRemove
  \/ ExtNoise
  \/ Recv
  \/ CheckExists
  \/ OpenAndRead /\ AuditOk
  \/ RunRsync /\ AuditOk
  \/ DeleteSrcFile
  \/ LogSuccess /\ AuditOk

SpecAuditOk == Init /\ [][NextAuditOk]_vars

(* ============================== claims ================================ *)
RunDir == Parent(run.path)
RunBase == FileName(run.path)

\* the lines the current run has added to the upload.log of directory d
NewLines(d) == SubSeq(logs[d].lines, run.logLens[d] + 1, Len(logs[d].lines))

\* the run has added exactly the line msg, to the upload.log beside its file
OnlyRecord(msg) ==
  /\ NewLines(RunDir) = <<msg>>
  /\ \A d \in Dirs \ {RunDir} : NewLines(d) = <<>>

\* the run has added no line to any upload.log
NoRecord == \A d \in Dirs : NewLines(d) = <<>>

\* the normalisation the specification states: one trailing comma is removed
StripOneComma(s) ==
  IF s # <<>> /\ s[Len(s)] = COMMA THEN SubSeq(s, 1, Len(s) - 1) ELSE s

\* C1: the agent removes a local file only in a run whose transfer of that
\* file reported success; a run whose transfer failed (non-zero exit, or the
\* command could not be launched) makes no attempt to remove the file.
C1_DeleteOnlyAfterSuccess ==
  /\ pc = "delete" => run.xfer = "success"
  /\ run.del # None => run.xfer = "success" /\ run.xfers = 1
  /\ run.xfer \in {"fail", "spawn_err"} => run.del = None /\ pc = "recv"

C1_Witness ==
  /\ run.xfer = "success"
  /\ run.del = "ok"
  /\ ~files[run.path].exists

SpawnError == "spawn error"

\* C2: every finished dispatch whose transfer failed, for whatever reason, has
\* added exactly one "Upload failed!" line with the basename and the reason
\* to the upload.log beside the file.
C2_FailureAlwaysAudited ==
  (pc = "recv" /\ run.xfer \in {"fail", "spawn_err"}) =>
    \E reason \in {RsyncStderr, SpawnError} : OnlyRecord(FailedMsg(RunBase, reason))

\* C3, as stated: when a dispatch whose transfer succeeded has finished, the
\* local file does not exist.
C3_FileGoneAfterSuccess ==
  (pc = "recv" /\ run.xfer = "success") => run.existsAtEnd = "no"

\* C3, amended: a dispatch whose transfer succeeded has tried once to remove
\* the local file before it finishes, and the file was absent right after
\* that attempt whenever the attempt succeeded.
C3_DeleteAttemptedAfterSuccess ==
  /\ (pc \in {"logsucc", "recv"} /\ run.xfer = "success") => run.del \in {"ok", "err"}
  /\ run.del = "ok" => run.goneAfterDel = "yes"

C3_Witness ==
  /\ pc = "recv"
  /\ run.xfer = "success"
  /\ run.del = "ok"
  /\ run.existsAtEnd = "no"

\* C4, as stated: a finished dispatch whose transfer succeeded and whose
\* delete failed has added exactly one "Upload succeeded!" line and no
\* other, after a single transfer.
C4_SuccessAuditedDespiteDeleteError ==
  (pc = "recv" /\ run.xfer = "success" /\ run.del = "err") =>
    /\ OnlyRecord(SucceededMsg(RunBase))
    /\ run.xfers = 1

\* C4, amended: such a dispatch has made one transfer and one attempt to
\* write the "Upload succeeded!" line; the line is the only one added when the
\* write succeeds, and no line at all is added when the write fails.
C4_SuccessAuditAttemptedDespiteDeleteError ==
  (pc = "recv" /\ run.xfer = "success" /\ run.del = "err") =>
    /\ run.xfers = 1
    /\ run.logCalls = 1
    /\ IF run.logOutcome = "ok" THEN OnlyRecord(SucceededMsg(RunBase)) ELSE NoRecord

C4_Witness ==
  /\ pc = "recv"
  /\ run.xfer = "success"
  /\ run.del = "err"
  /\ run.logOutcome = "ok"
  /\ OnlyRecord(SucceededMsg(RunBase))

\* C5: when the attempt to delete the local file is made, the "Upload
\* succeeded!" record has already been written.
C5_AuditBeforeDelete == run.del # None => run.logsAtDel >= 1

\* C6: a file whose first line, as read or with one trailing comma removed,
\* equals a registered header H is routed to Matched(hashmap[H]) and is then
\* dispatched to <dest_dir>/<hashmap[H]>.
C6_RegisteredHeaderIsMatched ==
  \A H \in DOMAIN hashmap :
    (run.line.read /\ (run.line.text = H \/ StripOneComma(run.line.text) = H)) =>
      /\ run.result = Ok(hashmap[H])
      /\ hashmap[H] # ""
      /\ pc = "rsync" \/ run.xfers = 1
      /\ run.xfers = 1 => run.dest = Join(DestDir, hashmap[H])

\* C7: a file whose first line, with one trailing comma removed, is no
\* registered header is routed to Unmatched; the run ends there having added
\* exactly one "No matching table headers found" line to the upload.log
\* beside the file, with no transfer and no delete.
C7_UnmatchedIsAuditedOnce ==
  (run.line.read /\ StripOneComma(run.line.text) \notin DOMAIN hashmap) =>
    /\ run.result = Ok("")
    /\ pc = "recv"
    /\ OnlyRecord(FailedMsg(RunBase, NoMatchReason))
    /\ run.xfers = 0
    /\ run.del = None

\* C8: routing a path that is missing, at the existence check or when the
\* file is opened, returns Unmatched with no error, no audit line and no
\* transfer.
C8_MissingPathIsSilent ==
  (run.existed = "no" \/ run.atOpen = "no") =>
    /\ run.result = Ok("")
    /\ pc = "recv"
    /\ NoRecord
    /\ run.xfers = 0

\* C9, as stated: when opening or reading an existing file fails, routing
\* returns an error and the run ends having added exactly one "Upload
\* failed! File: <basename> Reason: <error>" line beside the file, with no
\* transfer and no delete.
C9_IoErrorAuditedOnce ==
  (run.io \in {"PermissionDenied", "InvalidData"} /\ run.atOpen = "yes") =>
    /\ pc = "recv"
    /\ run.result = Err(run.io)
    /\ OnlyRecord(FailedMsg(RunBase, run.result.val))
    /\ run.xfers = 0
    /\ run.del = None

\* C9, amended: the run ends after one attempt to write that line; the line
\* is the only one added when the write succeeds, and none is added when
\* opening or writing upload.log fails; no transfer and no delete are made.
C9_IoErrorAuditAttemptedOnce ==
  (run.io \in {"PermissionDenied", "InvalidData"} /\ run.atOpen = "yes") =>
    /\ pc = "recv"
    /\ run.result = Err(run.io)
    /\ run.logCalls = 1
    /\ IF run.logOutcome = "ok"
       THEN OnlyRecord(FailedMsg(RunBase, run.result.val))
       ELSE NoRecord
    /\ run.xfers = 0
    /\ run.del = None

C9_Witness ==
  /\ run.io = "InvalidData"
  /\ run.result = Err("InvalidData")
  /\ run.atOpen = "yes"
  /\ run.logLens[RunDir] = 1
  /\ OnlyRecord(FailedMsg(RunBase, run.result.val))

\* C10: a first line is matched only if, after removing one trailing comma,
\* it is a registered header, and the table is the one registered for it.
C10_MatchOnlyAfterSingleStrip ==
  (run.line.read /\ run.result.tag = "Ok" /\ run.result.val # "") =>
    /\ StripOneComma(run.line.text) \in DOMAIN hashmap
    /\ hashmap[StripOneComma(run.line.text)] = run.result.val

\* a data modification of a path whose extension is exactly "csv"
IsCsvDataEvent(e) ==
  /\ e.kind = "ModifyData"
  /\ e.paths # <<>>
  /\ e.paths[1].ext = "csv"

\* C11: only a data modification of a path whose extension is exactly "csv"
\* starts a run; any other notification (another kind, another extension)
\* starts none: no routing, no dispatch, no delete, no audit record, and the
\* remote host and every upload.log are as they were when it was taken.
C11_OnlyCsvDataEventsAct ==
  /\ pc \in {"exists", "open", "rsync", "delete", "logsucc"} => IsCsvDataEvent(run.ev)
  /\ ~IsCsvDataEvent(run.ev) =>
       /\ pc \in {"recv", "panicked"}
       /\ run.path = NoPath
       /\ run.existed = None /\ run.result = NoResult
       /\ run.xfers = 0 /\ run.del = None /\ run.logCalls = 0
       /\ logs = run.logsAtStart
       /\ remote = run.remoteAtStart

C11_Witness ==
  /\ run.ev = Event("ModifyData", <<MkPath("d1", "x", "CSV", TRUE)>>)
  /\ pc = "recv"
  /\ run.path = NoPath
  /\ \E p \in CsvPaths : files[p].exists

\* C12 (as stated): whatever notifications arrive (a non-UTF-8 file name and
\* an empty path list included) and however a run ends, the loop never stops.
C12_LoopStaysAlive == pc # "panicked"

\* the run has none of the pipeline's effects
NoEffects ==
  /\ run.path = NoPath
  /\ run.existed = None /\ run.result = NoResult
  /\ run.xfers = 0 /\ run.del = None /\ run.logCalls = 0
  /\ logs = run.logsAtStart
  /\ remote = run.remoteAtStart

\* a data modification of a CSV path whose file name is valid UTF-8
IsRoutable(e) == IsCsvDataEvent(e) /\ e.paths[1].utf8

\* C13: a watch error routes nothing, dispatches nothing and writes no audit
\* record, and leaves the loop waiting for the next notification; while the
\* loop waits, after any number of watch errors, a CSV data modification at
\* the head of the stream is taken and routed.
C13_WatchErrorIsHarmless ==
  /\ run.ev.kind = "Error" => pc = "recv" /\ NoEffects
  /\ (run.errs >= 1 /\ pc = "recv" /\ queue # <<>> /\ IsRoutable(Head(queue))) =>
       ENABLED (Recv /\ pc' = "exists" /\ run'.path = Head(queue).paths[1])

\* after a watch error a CSV file has been routed and its transfer dispatched
C13_Witness ==
  /\ run.errs >= 1
  /\ run.ev.kind = "ModifyData"
  /\ run.xfer = "success"
  /\ run.path \in CsvPaths

\* C14: a run launches at most one transfer and adds at most one audit
\* record, in the upload.log beside its file: nothing is retried.  A run that
\* launched no transfer adds at most a routing failure record, a run whose
\* transfer succeeded at most a success record, a run whose transfer failed at
\* most a failure record.
C14_OnePassPerEvent ==
  /\ run.xfers <= 1
  /\ run.logCalls <= 1
  /\ \A d \in Dirs : Len(NewLines(d)) <= IF d = RunDir THEN 1 ELSE 0
  /\ ~NoRecord =>
       \/ /\ run.xfers = 0
          /\ \E why \in {NoMatchReason, "PermissionDenied", "InvalidData", "NotFound"} :
               OnlyRecord(FailedMsg(RunBase, why))
       \/ /\ run.xfer = "success"
          /\ OnlyRecord(SucceededMsg(RunBase))
       \/ /\ run.xfer = "fail"
          /\ OnlyRecord(FailedMsg(RunBase, RsyncStderr))

\* a run whose only transfer failed has written its one failure record
C14_Witness ==
  /\ pc = "recv"
  /\ run.xfers = 1
  /\ run.xfer = "fail"
  /\ OnlyRecord(FailedMsg(RunBase, RsyncStderr))

\* C15: notifications are processed one at a time: while the route, transfer,
\* delete or audit step of a run is still to come, no other notification can
\* be taken, and the steps in progress are those of the notification taken
\* last.
C15_OneRunAtATime ==
  pc \in {"exists", "open", "rsync", "delete", "logsucc"} =>
    /\ ~CanReceive
    /\ IsRoutable(run.ev)
    /\ run.path = run.ev.paths[1]

\* a run is about to delete its file while a second notification for the same
\* file waits
C15_Witness ==
  /\ pc = "delete"
  /\ queue # <<>>
  /\ Head(queue) = ModifyData(run.path)

IsPrefix(s, t) == Len(s) <= Len(t) /\ SubSeq(t, 1, Len(s)) = s

C18_AuditIsBestEffort ==
  run.logCalls >= 1 =>
    /\ pc = "recv"
    /\ run.logOutcome \in LogOutcomes
    /\ run.xfer = "success" =>
         /\ [dest |-> run.dest, file |-> RunBase] \in remote
         /\ run.del \in {"ok", "err"}
         /\ run.del = "ok" => run.goneAfterDel = "yes"
    /\ run.xfer = "fail" =>
         /\ run.del = None
         /\ remote = run.remoteAtStart
    /\ run.xfers = 0 =>
         /\ run.del = None
         /\ remote = run.remoteAtStart
    /\ run.logOutcome \in {"open_err", "write_err"} => NoRecord

\* the audit write of a successful transfer failed: the file was sent and
\* deleted all the same
C18_Witness ==
  /\ run.logOutcome \in {"open_err", "write_err"}
  /\ run.xfer = "success"
  /\ run.del = "ok"
  /\ pc = "recv"
  /\ NoRecord

\* C19 (as stated): a run launches a transfer only when the first line it
\* read, normalised as the specification states (one trailing comma removed),
\* is a key of the template map, and the destination is the base directory
\* joined with the table name the map holds for that key.
C19_TransferOnlyToMappedTable ==
  run.xfers >= 1 =>
    /\ run.line.read
    /\ StripOneComma(run.line.text) \in DOMAIN hashmap
    /\ run.dest = <<DestDir, hashmap[StripOneComma(run.line.text)]>>

\* the notifications in q that start a run
Routable(q) == { i \in DOMAIN q : IsCsvDataEvent(q[i]) }

\* C20: the agent's own writes do not feed back.  A data modification of an
\* upload.log is dropped when it is taken: nothing is routed, dispatched or
\* recorded.  Every run started and every pending notification that would
\* start one is owed to a distinct external event, so a finite burst of
\* external events leads to finitely many runs (each one pass, C14) and then
\* to rest; the pending notifications number at most one per external event
\* and one more per run (a run takes one and adds at most two).
C20_NoFeedback ==
  /\ run.ev \in { ModifyData(LogPath(d)) : d \in Dirs } => pc = "recv" /\ NoEffects
  /\ run.runs + Cardinality(Routable(queue)) <= emitted
  /\ Len(queue) <= emitted + run.runs

\* the notification of the agent's own audit write has been taken and
\* dropped, and nothing is pending
C20_Witness ==
  /\ run.ev = ModifyData(LogPath("d1"))
  /\ Len(logs["d1"].lines) = 1
  /\ run.runs = 1
  /\ emitted = 1
  /\ pc = "recv"
  /\ queue = <<>>

====
